---- MODULE Spec2Model ----
(***************************************************************************)
(* Process supervision of the bast launcher (package bast): command-line   *)
(* dispatch, master/worker spawning and monitoring, pid file and instance  *)
(* registry persistence, stop/reload fan-out and the OS-service callbacks. *)
(*                                                                         *)
(* Four specifications share the module:                                   *)
(*   SpecCmd  one invocation: parseCommandLine then Command                *)
(*   SpecSys  one master with its workers, the service-stop callback and   *)
(*            one operator invocation (-stop / -reload) running beside it  *)
(*   SpecPid  logPid followed by getWorkPids on arbitrary registries       *)
(*   SpecMgr  successive logMgr calls on the instance-registry file        *)
(* Files hold sequences of one-character strings; numbers are written and  *)
(* read back digit by digit as strconv.Itoa / strconv.Atoi do.             *)
(***************************************************************************)
EXTENDS Integers, Sequences, FiniteSets, TLC

\* ------------------------------------------------------------- bounds
\* Largest number of configured application units (Confs()).
MaxUnits == 2
\* Largest number of logMgr calls in one behaviour of SpecMgr.
MaxAppends == 4

\* The longest chain of re-executions followed.
MaxChain == 3

\* ---------------------------------------------------------- text helpers
DigitChars == <<"0", "1", "2", "3", "4", "5", "6", "7", "8", "9">>

IsDigit(ch) == \E d \in 1..10 : DigitChars[d] = ch

DigitVal(ch) == (CHOOSE d \in 1..10 : DigitChars[d] = ch) - 1

\* strconv.Itoa for the non-negative numbers used as pids.
RECURSIVE Itoa(_)
Itoa(n) ==
  IF n < 10 THEN <<DigitChars[n + 1]>>
  ELSE Itoa(n \div 10) \o <<DigitChars[(n % 10) + 1]>>

RECURSIVE DigitsVal(_)
DigitsVal(s) ==
  IF s = <<>> THEN 0
  ELSE 10 * DigitsVal(SubSeq(s, 1, Len(s) - 1)) + DigitVal(s[Len(s)])

\* strconv.Atoi on unsigned decimal text: an error for the empty string and
\* for any character that is not a digit.
Atoi(s) ==
  IF s # <<>> /\ \A i \in 1..Len(s) : IsDigit(s[i])
  THEN [ok |-> TRUE, val |-> DigitsVal(s)]
  ELSE [ok |-> FALSE, val |-> 0]

\* strings.Split(s, sep) for a one-character separator: always at least one
\* field, the empty text giving one empty field.
RECURSIVE Split(_, _)
Split(s, sep) ==
  IF \E i \in 1..Len(s) : s[i] = sep
  THEN LET k == CHOOSE i \in 1..Len(s) :
                  s[i] = sep /\ \A j \in 1..(i - 1) : s[j] # sep
       IN <<SubSeq(s, 1, k - 1)>> \o Split(SubSeq(s, k + 1, Len(s)), sep)
  ELSE <<s>>

IsSpace(ch) == ch \in {" ", "\t", "\r", "\n"}

\* strings.TrimSpace.
RECURSIVE TrimSpace(_)
TrimSpace(s) ==
  IF s = <<>> THEN s
  ELSE IF IsSpace(s[1]) THEN TrimSpace(Tail(s))
  ELSE IF IsSpace(s[Len(s)]) THEN TrimSpace(SubSeq(s, 1, Len(s) - 1))
  ELSE s

Range(s) == {s[i] : i \in DOMAIN s}

RECURSIVE SeqOfSet(_)
SeqOfSet(S) ==
  IF S = {} THEN <<>>
  ELSE LET m == CHOOSE x \in S : \A y \in S : x <= y
       IN <<m>> \o SeqOfSet(S \ {m})

\* ------------------------------------------------------------ variables
\* One invocation of the binary (SpecCmd).
VARIABLES
  args,          \* os.Args[1:], a sequence of [flag, val] arguments
  flags,         \* the package-level flag variables after parseCommandLine
  cmdPc,         \* "init" | "parsed" | "done": position of the invocation
  isCallCommand, \* app.isCallCommand
  handlers,      \* the mode handlers Command has called, in order
  cmdRet,        \* the value Command returned
  printed,       \* one-line messages written with fmt.Println
  svcCalls,      \* calls made on the OS service manager (install / remove)
  launched,      \* argument sequences of the children started with exec.Command
  exitCode,      \* -1 while the process lives, else its os.Exit code
  runPc,         \* Run: "idle" | "inCommand" | "returned" | "doRun" | "serving" | "exited"
  gen            \* how many launched children have begun to run in turn

\* One master, its workers, the service-stop callback and one operator
\* invocation (SpecSys).
VARIABLES
  nUnits,        \* len(Confs())
  appCmd,        \* app.cmd, the worker registry
  pipeName,      \* app.pipeName
  appRuning,     \* app.runing
  isClear,       \* the package-level isClear flag
  clearCount,    \* how many times the effects of clear() were executed
  pidFile,       \* <executable>.pid: [exists, data]
  wState,        \* per unit: "none" | "failed" | "alive" | "exited"
  wCode,         \* per unit: exit code of its process
  wSig,          \* per unit: "none", "int" (SIGINT delivered), "shutdown"
  spawns,        \* per unit: the number of cmd.Start() calls made for it
  wArgs,         \* per unit: the arguments its worker was started with
  waiter,        \* per unit: "none" | "waiting" | "sending" | "done"
  mPc,           \* the master's main task
  monPc,         \* checkWorkProcess
  monI,          \* its loop index i (0-based)
  monL,          \* its count l of wait-tasks
  reported,      \* exit codes printed by checkWorkProcess, with the index used
  stopPc,        \* daemonExecutable.Stop
  stopPids,      \* pids read by serviceStop
  svcSent,       \* sendSignal calls made by serviceStop, per pid
  opMode,        \* "stop" | "reload": what the operator invocation runs
  opPc,          \* position of the operator invocation
  opSaw,         \* the pid file as it was when the invocation read it
  opPids,        \* pids it read from the pid file
  opSent,        \* sendSignal calls it made, per pid
  startCalls     \* calls of start() made by reload()

\* logPid / getWorkPids round trip (SpecPid).
VARIABLES
  masterPid,     \* os.Getpid() of the master
  pidPc,         \* "init" | "written" | "read"
  pidRead        \* result of getWorkPids

\* Instance registry (SpecMgr).
VARIABLES
  mgrFile,       \* <executable>.mgr: [exists, data]
  mgrLast,       \* the last logMgr call: [cf, force, before]
  mgrCalls       \* number of logMgr calls so far

\* A second master process of the same executable (SpecGen).
VARIABLES
  newPc,         \* its position: "none" | "doStart" | "logPid" | "write" | "monitor" | "done"
  newState       \* its workers, per unit: "none" | "alive" | "exited"

cmdVars == <<args, flags, cmdPc, isCallCommand, handlers, cmdRet, printed,
             svcCalls, launched, exitCode, runPc, gen>>
sysVars == <<nUnits, spawns, wArgs, appCmd, pipeName, appRuning, isClear, clearCount, pidFile,
             wState, wCode, wSig, waiter, mPc, monPc, monI, monL, reported, stopPc,
             stopPids, svcSent, opMode, opPc, opSaw, opPids, opSent, startCalls>>
pidVars == <<masterPid, pidPc, pidRead>>
mgrVars == <<mgrFile, mgrLast, mgrCalls>>
newVars == <<newPc, newState>>
vars == <<cmdVars, sysVars, pidVars, mgrVars, newVars>>

\* ------------------------------------------------------------- pid file
NoFile == [exists |-> FALSE, data |-> <<>>]

\* A registry entry (type work); pid is cmd.Process.Pid, meaningful only when
\* the process was started (cmd.Process # nil).
Work(k, p, st, r) == [key |-> k, pid |-> p, started |-> st, runing |-> r]

PidSepOffByOne(index) == IF index > 1 THEN <<",">> ELSE <<>>

\* The separator logPid writes before the pid of the running unit at
\* (0-based) position index.
PidSep(index) == IF index > 0 THEN <<",">> ELSE <<>>

\* The pid list of logPid's loop over the first n registry entries.
RECURSIVE PidList(_, _)
PidList(cmd, n) ==
  IF n = 0 THEN <<>>
  ELSE PidList(cmd, n - 1)
       \o (IF cmd[n].runing THEN PidSep(n - 1) \o Itoa(cmd[n].pid) ELSE <<>>)

\* logPid dereferences cmd.Process of every running entry: a nil pointer
\* when that process was never started.
LogPidPanics(cmd) == \E i \in DOMAIN cmd : cmd[i].runing /\ ~cmd[i].started

\* The text logPid writes: "<pid>|<pipeName>:<pid1>,<pid2>,...".
LogPidText(mpid, pipe, cmd) ==
  Itoa(mpid) \o <<"|">> \o pipe \o <<":">> \o PidList(cmd, Len(cmd))

RECURSIVE AtoiAll(_)
AtoiAll(fields) ==
  IF fields = <<>> THEN <<>>
  ELSE (IF Atoi(Head(fields)).ok THEN <<Atoi(Head(fields)).val>> ELSE <<>>)
       \o AtoiAll(Tail(fields))

\* getWorkPids: nil for a missing file (ReadAll on the nil file fails);
\* otherwise the numbers after the first ":", and an index-out-of-range
\* panic on cs[1] when the text holds no ":".
GetWorkPids(f) ==
  IF ~f.exists THEN [panic |-> FALSE, pids |-> <<>>]
  ELSE LET cs == Split(f.data, ":")
       IN IF Len(cs) < 2 THEN [panic |-> TRUE, pids |-> <<>>]
          ELSE [panic |-> FALSE, pids |-> AtoiAll(Split(cs[2], ","))]

\* --------------------------------------------------------- command line
Arg(f, v) == [flag |-> f, val |-> v]

\* The arguments an invocation is built from, in the order they are given.
\* A boolean flag -x is [x, "true"]; -install=false is [install, "false"].
ArgOrder ==
  << Arg("develop", "true"), Arg("start", "true"), Arg("stop", "true"),
     Arg("reload", "true"), Arg("daemon", "true"), Arg("uninstall", "true"),
     Arg("force", "true"), Arg("install", "true"), Arg("install", "false"),
     Arg("service", "true"), Arg("master", "true"), Arg("name", "svc"),
     Arg("conf", "c") >>

\* The subsequence of ArgOrder at the positions in S.
ArgsOf(S) == [i \in 1..Cardinality(S) |-> ArgOrder[SeqOfSet(S)[i]]]

\* flag.FlagSet.Parse: the last occurrence of a flag decides its value.
Occurs(a, f) == {i \in DOMAIN a : a[i].flag = f}

LastOf(a, f) == a[CHOOSE i \in Occurs(a, f) : \A j \in Occurs(a, f) : j <= i]

BoolVal(a, f) == Occurs(a, f) # {} /\ LastOf(a, f).val = "true"

StrVal(a, f) == IF Occurs(a, f) = {} THEN "" ELSE LastOf(a, f).val

\* strings.HasPrefix(k, "-install") on the text of an argument: of the flags
\* the flag set knows, only -install (with or without a value) has it.
HasInstallPrefix(k) == k.flag = "install"

StartOffNoReload(f) ==
  f.develop \/ f.stop \/ f.daemon \/ f.install \/ f.uninstall \/ f.service

\* The condition under which parseCommandLine clears flagStart.
StartOff(f) ==
  f.develop \/ f.stop \/ f.reload \/ f.daemon \/ f.install \/ f.uninstall
    \/ f.service

NoFlags ==
  [develop |-> FALSE, start |-> FALSE, stop |-> FALSE, reload |-> FALSE,
   daemon |-> FALSE, uninstall |-> FALSE, force |-> FALSE, install |-> FALSE,
   service |-> FALSE, master |-> FALSE, name |-> "", conf |-> ""]

\* f.Parse(os.Args[1:]): every flag variable from its last occurrence.
ParseFlags(a) ==
  [develop |-> BoolVal(a, "develop"), start |-> BoolVal(a, "start"),
   stop |-> BoolVal(a, "stop"), reload |-> BoolVal(a, "reload"),
   daemon |-> BoolVal(a, "daemon"), uninstall |-> BoolVal(a, "uninstall"),
   force |-> BoolVal(a, "force"), install |-> BoolVal(a, "install"),
   service |-> BoolVal(a, "service"), master |-> BoolVal(a, "master"),
   name |-> StrVal(a, "name"), conf |-> StrVal(a, "conf")]

\* if len(os.Args) == 1 { flagStart = true }
NoArgsStart(a, f) == IF Len(a) = 0 THEN [f EXCEPT !.start = TRUE] ELSE f

\* if flagName != "" { isInstall = true }, then the -install prefix scan.
ImplyInstall(a, f) ==
  IF f.name # "" \/ \E i \in DOMAIN a : HasInstallPrefix(a[i])
  THEN [f EXCEPT !.install = TRUE] ELSE f

SuppressDaemonNever(f) == f

\* if isInstall { flagDaemon = false }
SuppressDaemon(f) == IF f.install THEN [f EXCEPT !.daemon = FALSE] ELSE f

\* if flagService { isMaster = flagService }
ServiceIsMaster(f) == IF f.service THEN [f EXCEPT !.master = f.service] ELSE f

\* parseCommandLine, from f.Parse to the statement before confParse.
ParseCommandLine(a) ==
  LET s1 == SuppressDaemon(ImplyInstall(a, NoArgsStart(a, ParseFlags(a))))
      s2 == IF StartOff(s1) THEN [s1 EXCEPT !.start = FALSE] ELSE s1
  IN ServiceIsMaster(s2)

\* The branch Command's if / else-if chain takes.
Mode(f) ==
  IF f.start THEN "start"
  ELSE IF f.service THEN "service"
  ELSE IF f.stop THEN "stop"
  ELSE IF f.reload THEN "reload"
  ELSE IF f.daemon THEN "daemon"
  ELSE IF f.install THEN "install"
  ELSE IF f.uninstall THEN "uninstall"
  ELSE "none"

\* AppName(): the executable's base name without its extension.
AppName == "bast"

\* ConfPath() of the configuration loader: the path of the configuration
\* in use, the -conf argument when one was given.
ConfPath(f) == IF f.conf # "" THEN f.conf ELSE "config.conf"

ServiceName(f) == IF f.name = "" THEN AppName ELSE f.name

InstallArgsNoForce(f) == <<Arg("service", "true"), Arg("conf", f.conf)>>

\* The arguments install() registers the service with.
InstallArgs(f) ==
  <<Arg("service", "true"), Arg("force", "true"), Arg("conf", f.conf)>>

\* A re-execution that leaves -master out.
MasterArgsNoMaster(f) == <<Arg("start", "true"), Arg("conf", ConfPath(f))>>

\* The arguments start() re-executes the binary with.
MasterArgs(f) ==
  <<Arg("master", "true"), Arg("start", "true"), Arg("conf", ConfPath(f))>>

\* The string flags a worker reads, as sequences of characters: the value
\* of the last occurrence, the empty string when the flag is not given.
TextVal(a, f) == IF Occurs(a, f) = {} THEN <<>> ELSE LastOf(a, f).val

\* f.StringVar(&flagAppKey, "appkey", "", "")
FlagAppKey(a) == TextVal(a, "appkey")

\* f.StringVar(&flagPipe, "pipe", "", "")
FlagPipe(a) == TextVal(a, "pipe")

\* f.IntVar(&flagPPid, "pid", 0, ""): the number the text of -pid stands for.
FlagPPid(a) ==
  IF Occurs(a, "pid") = {} THEN 0 ELSE Atoi(LastOf(a, "pid").val).val

\* The arguments doStart starts the worker of a unit with: -daemon,
\* -appkey=<c.Key>, -pipe=<app.pipeName>, -pid=<pid>, -appkey=<flagAppKey>,
\* -conf=<path>.
WorkerArgs(key, pipe, pid, appkey, path) ==
  <<Arg("daemon", "true"), Arg("appkey", key), Arg("pipe", pipe),
    Arg("pid", pid), Arg("appkey", appkey), Arg("conf", path)>>

\* ------------------------------------------------------- process numbers
MasterPids == {7, 1234}

\* The pid the operating system gives the worker of unit i.
WorkerPid(i) == IF i % 2 = 1 THEN 2000 + i ELSE 30 + i

Units == 1..MaxUnits

\* The pid the operating system gives the worker of unit i of a second
\* master.
NewWorkerPid(i) == WorkerPid(i) + 100

PidSpace ==
  MasterPids \cup {WorkerPid(i) : i \in 1..(MaxUnits + 1)}
             \cup {NewWorkerPid(i) : i \in Units}

NoneSent == [p \in PidSpace |-> 0]

\* ------------------------------------------------- states of idle parts
CmdIdle ==
  /\ args = <<>>
  /\ flags = NoFlags
  /\ cmdPc = "off"
  /\ isCallCommand = FALSE
  /\ handlers = <<>>
  /\ cmdRet = TRUE
  /\ printed = <<>>
  /\ svcCalls = <<>>
  /\ launched = <<>>
  /\ exitCode = -1
  /\ runPc = "idle"
  /\ gen = 0

SysIdleRest ==
  /\ nUnits = 0
  /\ appRuning = TRUE
  /\ isClear = FALSE
  /\ clearCount = 0
  /\ wState = [i \in Units |-> "none"]
  /\ wCode = [i \in Units |-> 0]
  /\ wSig = [i \in Units |-> "none"]
  /\ spawns = [i \in Units |-> 0]
  /\ wArgs = [i \in Units |-> <<>>]
  /\ waiter = [i \in Units |-> "none"]
  /\ mPc = "idle"
  /\ monPc = "idle"
  /\ monI = 0
  /\ monL = 0
  /\ reported = <<>>
  /\ stopPc = "idle"
  /\ stopPids = <<>>
  /\ svcSent = NoneSent
  /\ opMode = "none"
  /\ opPc = "idle"
  /\ opSaw = NoFile
  /\ opPids = <<>>
  /\ opSent = NoneSent
  /\ startCalls = 0

SysIdle ==
  /\ SysIdleRest
  /\ appCmd = <<>>
  /\ pipeName = <<>>
  /\ pidFile = NoFile

PidIdle ==
  /\ masterPid = 1234
  /\ pidPc = "off"
  /\ pidRead = [panic |-> FALSE, pids |-> <<>>]

MgrIdle ==
  /\ mgrFile = NoFile
  /\ mgrLast = [cf |-> <<>>, force |-> FALSE, before |-> NoFile]
  /\ mgrCalls = 0

NewIdle ==
  /\ newPc = "none"
  /\ newState = [i \in Units |-> "none"]

\* ------------------------------------------------------------- SpecCmd
\* init() and the first call of Command (through Run) in one invocation.
\* The bodies of start-as-master, service, stop and reload run on in
\* SpecSys; here Command enters them.
InitCmd ==
  /\ args \in {ArgsOf(S) : S \in SUBSET (1..Len(ArgOrder))}
  /\ flags = NoFlags
  /\ cmdPc = "init"
  /\ isCallCommand = FALSE
  /\ handlers = <<>>
  /\ cmdRet = TRUE
  /\ printed = <<>>
  /\ svcCalls = <<>>
  /\ launched = <<>>
  /\ exitCode = -1
  /\ runPc = "idle"
  /\ gen = 0
  /\ SysIdle /\ PidIdle /\ MgrIdle /\ NewIdle

CmdParse ==
  /\ cmdPc = "init"
  /\ flags' = ParseCommandLine(args)
  /\ cmdPc' = "parsed"
  /\ UNCHANGED <<args, isCallCommand, handlers, cmdRet, printed, svcCalls,
                 launched, exitCode, runPc, gen, sysVars, pidVars, mgrVars, newVars>>

\* The part of Command common to every branch.
Enter(m) ==
  /\ cmdPc = "parsed"
  /\ ~isCallCommand
  /\ Mode(flags) = m
  /\ isCallCommand' = TRUE
  /\ handlers' = IF m = "none" THEN handlers ELSE Append(handlers, m)
  /\ UNCHANGED <<args, runPc, gen, pidVars, mgrVars, newVars>>

SysRest ==
  UNCHANGED <<nUnits, spawns, wArgs, appCmd, pipeName, appRuning, isClear, clearCount, pidFile,
              wState, wCode, wSig, waiter, monPc, monI, monL, reported, stopPc,
              stopPids, svcSent, opSaw, opPids, opSent, startCalls>>

\* start() in a process that is not the master: re-execute and exit 0.
CmdStartDetach ==
  /\ Enter("start")
  /\ ~flags.master
  /\ launched' = Append(launched, MasterArgs(flags))
  /\ exitCode' = 0
  /\ cmdPc' = "done"
  /\ UNCHANGED <<flags, cmdRet, printed, svcCalls, mPc, opMode, opPc>>
  /\ SysRest

\* start() in the master: doStart, then checkWorkProcess.
CmdStartMaster ==
  /\ Enter("start")
  /\ flags.master
  /\ mPc' = "doStart"
  /\ cmdPc' = "inHandler"
  /\ UNCHANGED <<flags, cmdRet, printed, svcCalls, launched, exitCode, opMode,
                 opPc>>
  /\ SysRest

\* service(): the service manager runs daemonExecutable.Run, i.e. doService.
CmdService ==
  /\ Enter("service")
  /\ \E newOk \in BOOLEAN :
       /\ mPc' = IF newOk THEN "doStart" ELSE mPc
       /\ cmdPc' = IF newOk THEN "inHandler" ELSE "done"
       /\ cmdRet' = IF newOk THEN cmdRet ELSE FALSE
       /\ printed' = IF newOk THEN printed
                     ELSE Append(printed, "service child process")
  /\ flags' = [flags EXCEPT !.name = ServiceName(flags)]
  /\ UNCHANGED <<svcCalls, launched, exitCode, opMode, opPc>>
  /\ SysRest

CmdStop ==
  /\ Enter("stop")
  /\ opMode' = "stop"
  /\ opPc' = "read"
  /\ cmdPc' = "inHandler"
  /\ UNCHANGED <<flags, cmdRet, printed, svcCalls, launched, exitCode, mPc>>
  /\ SysRest

CmdReload ==
  /\ Enter("reload")
  /\ opMode' = "reload"
  /\ opPc' = "read"
  /\ cmdPc' = "inHandler"
  /\ UNCHANGED <<flags, cmdRet, printed, svcCalls, launched, exitCode, mPc>>
  /\ SysRest

\* daemon(): this process is a worker; Command returns true and Run serves.
CmdDaemon ==
  /\ Enter("daemon")
  /\ cmdRet' = TRUE
  /\ cmdPc' = "done"
  /\ UNCHANGED <<flags, printed, svcCalls, launched, exitCode, mPc, opMode,
                 opPc>>
  /\ SysRest

\* install(): sdaemon.New and service.Install may each fail.
CmdInstall ==
  /\ Enter("install")
  /\ \E out \in {"newFailed", "failed", "ok"} :
       /\ svcCalls' =
            IF out = "newFailed" THEN svcCalls
            ELSE Append(svcCalls, [op |-> "install", name |-> ServiceName(flags),
                                   args |-> InstallArgs(flags),
                                   ok |-> out = "ok"])
       /\ printed' = printed \o
            <<IF out = "ok" THEN "install success" ELSE "install failed",
              "install service">>
  /\ flags' = [flags EXCEPT !.name = ServiceName(flags)]
  /\ cmdRet' = FALSE
  /\ cmdPc' = "done"
  /\ UNCHANGED <<launched, exitCode, mPc, opMode, opPc>>
  /\ SysRest

\* uninstall(): sdaemon.New and service.Remove may each fail.
CmdUninstall ==
  /\ Enter("uninstall")
  /\ \E out \in {"newFailed", "failed", "ok"} :
       /\ svcCalls' =
            IF out = "newFailed" THEN svcCalls
            ELSE Append(svcCalls, [op |-> "remove", name |-> ServiceName(flags),
                                   args |-> <<>>, ok |-> out = "ok"])
       /\ printed' = printed \o
            <<IF out = "ok" THEN "uninstall success" ELSE "uninstall failed",
              "uninstall service">>
  /\ flags' = [flags EXCEPT !.name = ServiceName(flags)]
  /\ cmdRet' = FALSE
  /\ cmdPc' = "done"
  /\ UNCHANGED <<launched, exitCode, mPc, opMode, opPc>>
  /\ SysRest

\* No branch taken: Command returns true and Run serves in the foreground.
CmdNone ==
  /\ Enter("none")
  /\ cmdRet' = TRUE
  /\ cmdPc' = "done"
  /\ UNCHANGED <<flags, printed, svcCalls, launched, exitCode, mPc, opMode,
                 opPc>>
  /\ SysRest

NextCmd ==
  \/ CmdParse
  \/ CmdStartDetach
  \/ CmdStartMaster
  \/ CmdService
  \/ CmdStop
  \/ CmdReload
  \/ CmdDaemon
  \/ CmdInstall
  \/ CmdUninstall
  \/ CmdNone

SpecCmd == InitCmd /\ [][NextCmd]_vars
\* ------------------------------------------------------------- SpecSys
\* One master process (foreground -master -start, or the OS service), the
\* workers it starts, the wait-tasks and loop of checkWorkProcess, the
\* service-stop callback, and one operator invocation of -stop or -reload
\* that runs as a process of its own beside the master.
ExitCodes == {1, 222}

MasterStartArgs == MasterArgs([NoFlags EXCEPT !.conf = "c"])

ServiceArgs == InstallArgs([NoFlags EXCEPT !.conf = "c"])

InitSys ==
  /\ args \in {MasterStartArgs, ServiceArgs}
  /\ flags = ParseCommandLine(args)
  /\ cmdPc = "inHandler"
  /\ isCallCommand = TRUE
  /\ handlers = <<Mode(flags)>>
  /\ cmdRet = TRUE
  /\ printed = <<>>
  /\ svcCalls = <<>>
  /\ launched = <<>>
  /\ exitCode = -1
  /\ runPc = "idle"
  /\ gen = 0
  /\ nUnits \in 0..MaxUnits
  /\ appCmd = <<>>
  /\ pipeName = <<>>
  /\ appRuning = TRUE
  /\ isClear = FALSE
  /\ clearCount = 0
  /\ pidFile = NoFile
  /\ wState = [i \in Units |-> "none"]
  /\ wCode = [i \in Units |-> 0]
  /\ wSig = [i \in Units |-> "none"]
  /\ spawns = [i \in Units |-> 0]
  /\ wArgs = [i \in Units |-> <<>>]
  /\ waiter = [i \in Units |-> "none"]
  /\ mPc = "doStart"
  /\ monPc = "idle"
  /\ monI = 0
  /\ monL = 0
  /\ reported = <<>>
  /\ stopPc = "idle"
  /\ stopPids = <<>>
  /\ svcSent = NoneSent
  /\ opMode = "none"
  /\ opPc = "idle"
  /\ opSaw = NoFile
  /\ opPids = <<>>
  /\ opSent = NoneSent
  /\ startCalls = 0
  /\ PidIdle /\ MgrIdle /\ NewIdle

CmdRest ==
  UNCHANGED <<args, flags, isCallCommand, handlers, printed, svcCalls, runPc, gen>>

OpRest == UNCHANGED <<opMode, opPc, opSaw, opPids, opSent, startCalls>>

StopRest == UNCHANGED <<stopPc, stopPids, svcSent>>

MasterAlive == mPc \notin {"panicked", "exited"}

\* doStart up to the loop: the pipe name is the master's pid, the registry
\* is emptied.
DoStartBegin ==
  /\ mPc = "doStart"
  /\ pipeName' = Itoa(masterPid)
  /\ appCmd' = <<>>
  /\ mPc' = "spawn"
  /\ UNCHANGED <<nUnits, spawns, wArgs, appRuning, isClear, clearCount, pidFile, wState, wCode, wSig,
                 waiter, monPc, monI, monL, reported, cmdPc, cmdRet, launched,
                 exitCode, pidVars, mgrVars, newVars>>
  /\ CmdRest /\ OpRest /\ StopRest

\* One turn of doStart's loop: cmd.Start() may fail (its error is dropped,
\* cmd.Process stays nil); the unit is appended with runing: true either way.
SpawnUnit ==
  /\ mPc = "spawn"
  /\ Len(appCmd) < nUnits
  /\ LET i == Len(appCmd) + 1 IN
     \E ok \in BOOLEAN :
       /\ wState' = [wState EXCEPT ![i] = IF ok THEN "alive" ELSE "failed"]
       /\ appCmd' = Append(appCmd, Work(i, IF ok THEN WorkerPid(i) ELSE 0, ok, TRUE))
       /\ spawns' = [spawns EXCEPT ![i] = @ + 1]
       /\ wArgs' = [wArgs EXCEPT ![i] =
                      WorkerArgs(Itoa(i), pipeName, Itoa(masterPid),
                                 FlagAppKey(args), ConfPath(flags))]
  /\ UNCHANGED <<nUnits, pipeName, appRuning, isClear, clearCount, pidFile, wCode, wSig,
                 waiter, mPc, monPc, monI, monL, reported, cmdPc, cmdRet,
                 launched, exitCode, pidVars, mgrVars, newVars>>
  /\ CmdRest /\ OpRest /\ StopRest

\* logPid, first half: OpenFile with O_CREATE|O_TRUNC empties the file.
LogPidOpen ==
  /\ mPc = "spawn"
  /\ Len(appCmd) = nUnits
  /\ pidFile' = [exists |-> TRUE, data |-> <<>>]
  /\ mPc' = "logPid"
  /\ UNCHANGED <<nUnits, spawns, wArgs, appCmd, pipeName, appRuning, isClear, clearCount, wState,
                 wCode, wSig, waiter, monPc, monI, monL, reported, cmdPc, cmdRet,
                 launched, exitCode, pidVars, mgrVars, newVars>>
  /\ CmdRest /\ OpRest /\ StopRest

\* logPid, second half: the text is built (a nil cmd.Process panics and
\* ends the process) and written. Then checkWorkProcess starts: called by
\* start(), or as a task of its own by doService, which returns.
LogPidWrite ==
  /\ mPc = "logPid"
  /\ IF LogPidPanics(appCmd)
     THEN /\ mPc' = "panicked"
          /\ UNCHANGED <<pidFile, monPc>>
     ELSE /\ pidFile' = [exists |-> TRUE,
                         data |-> LogPidText(masterPid, pipeName, appCmd)]
          /\ mPc' = IF flags.service THEN "serving" ELSE "monitor"
          /\ monPc' = "setup"
  /\ UNCHANGED <<nUnits, spawns, wArgs, appCmd, pipeName, appRuning, isClear, clearCount, wState,
                 wCode, wSig, waiter, monI, monL, reported, cmdPc, cmdRet, launched,
                 exitCode, pidVars, mgrVars, newVars>>
  /\ CmdRest /\ OpRest /\ StopRest

\* A worker process ends, by itself or after a signal.
WorkerExit(i) ==
  /\ wState[i] = "alive"
  /\ \E code \in ExitCodes : wCode' = [wCode EXCEPT ![i] = code]
  /\ wState' = [wState EXCEPT ![i] = "exited"]
  /\ UNCHANGED <<nUnits, spawns, wArgs, appCmd, pipeName, appRuning, isClear, clearCount, pidFile,
                 wSig, waiter, mPc, monPc, monI, monL, reported, cmdPc, cmdRet,
                 launched, exitCode, pidVars, mgrVars, newVars>>
  /\ CmdRest /\ OpRest /\ StopRest

\* The code of os.Exit in doRun, for a listen error and for any error
\* ListenAndServe returns.
FatalExitCode == 222

\* The exit code of a worker whose server has been shut down: http.Server's
\* ListenAndServe returns ErrServerClosed, which is not nil, so doRun takes
\* the os.Exit(222) branch and "finish" is never printed.
ShutdownExitCode == FatalExitCode

\* A serving worker takes the SIGINT delivered to it: signalListen calls
\* Shutdown(nil), ListenAndServe returns in doRun and the process ends.
WorkerShutdown(i) ==
  /\ wState[i] = "alive"
  /\ wSig[i] = "int"
  /\ wSig' = [wSig EXCEPT ![i] = "shutdown"]
  /\ wCode' = [wCode EXCEPT ![i] = ShutdownExitCode]
  /\ wState' = [wState EXCEPT ![i] = "exited"]
  /\ UNCHANGED <<nUnits, spawns, wArgs, appCmd, pipeName, appRuning, isClear, clearCount, pidFile,
                 waiter, mPc, monPc, monI, monL, reported, cmdPc, cmdRet,
                 launched, exitCode, pidVars, mgrVars, newVars>>
  /\ CmdRest /\ OpRest /\ StopRest

\* A loop bound that leaves the last wait-task out.
WaitCountOneShort(cmd) ==
  LET n == Cardinality({i \in DOMAIN cmd : cmd[i].runing}) IN
  IF n > 1 THEN n - 1 ELSE n

\* "l++" once per entry flagged runing: the number of completions the
\* second loop of checkWorkProcess receives.
WaitCount(cmd) == Cardinality({i \in DOMAIN cmd : cmd[i].runing})

\* checkWorkProcess, first loop: one wait-task per entry flagged runing.
MonSetup ==
  /\ monPc = "setup"
  /\ MasterAlive
  /\ waiter' = [i \in Units |->
                  IF i <= Len(appCmd) /\ appCmd[i].runing THEN "waiting" ELSE "none"]
  /\ monL' = WaitCount(appCmd)
  /\ monI' = 0
  /\ monPc' = IF monL' = 0 THEN "clear" ELSE "loop"
  /\ UNCHANGED <<nUnits, spawns, wArgs, appCmd, pipeName, appRuning, isClear, clearCount, pidFile,
                 wState, wCode, wSig, mPc, reported, cmdPc, cmdRet, launched, exitCode,
                 pidVars, mgrVars, newVars>>
  /\ CmdRest /\ OpRest /\ StopRest

\* A wait-task: cmd.Wait() returns once the process has ended (at once, with
\* an error, for a process that never started); the task then offers its
\* completion on the channel.
WaitReturn(i) ==
  /\ waiter[i] = "waiting"
  /\ MasterAlive
  /\ wState[i] \in {"exited", "failed"}
  /\ waiter' = [waiter EXCEPT ![i] = "sending"]
  /\ UNCHANGED <<nUnits, spawns, wArgs, appCmd, pipeName, appRuning, isClear, clearCount, pidFile,
                 wState, wCode, wSig, mPc, monPc, monI, monL, reported, cmdPc, cmdRet,
                 launched, exitCode, pidVars, mgrVars, newVars>>
  /\ CmdRest /\ OpRest /\ StopRest

\* "w := app.cmd[i] ... w.runing = false": w is a copy of the slice element
\* (work is a struct), so the registry keeps what it held.
MarkExited(cmd, idx) == cmd

\* The exit code checkWorkProcess reads from app.cmd[idx].cmd.ProcessState:
\* set once Wait has returned for a started process, else nil (-1 here).
StateCode(idx) ==
  IF appCmd[idx].started /\ waiter[idx] \in {"sending", "done"}
  THEN wCode[idx] ELSE -1

\* A loop that restarts the entry at the loop index while app.runing holds.
RestartsAlways == TRUE

\* "if app.runing { ... }": the call of startWork(i) is commented out, the
\* branch is empty.
RestartsOnExit == FALSE

\* The cmd.Start() calls per unit after one turn of the loop: startWork(i)
\* would make one more for the entry at the loop index.
Respawned(n, idx) ==
  IF appRuning /\ RestartsOnExit THEN [n EXCEPT ![idx] = @ + 1] ELSE n

\* checkWorkProcess, one turn of the second loop: a completion is received
\* from whichever wait-task offers one, the entry at the loop index is
\* reported and marked, and the loop goes on while app.runing holds.
MonRecv(i) ==
  /\ monPc = "loop"
  /\ MasterAlive
  /\ monI < monL
  /\ waiter[i] = "sending"
  /\ waiter' = [waiter EXCEPT ![i] = "done"]
  /\ reported' = Append(reported, [index |-> monI + 1, from |-> i,
                                   key |-> appCmd[monI + 1].key,
                                   code |-> StateCode(monI + 1)])
  /\ appCmd' = MarkExited(appCmd, monI + 1)
  /\ spawns' = Respawned(spawns, monI + 1)
  /\ IF appRuning
     THEN /\ monI' = monI + 1
          /\ monPc' = IF monI + 1 < monL THEN "loop" ELSE "clear"
     ELSE /\ monI' = monI
          /\ monPc' = "clear"
  /\ UNCHANGED <<nUnits, wArgs, pipeName, appRuning, isClear, clearCount, pidFile,
                 wState, wCode, wSig, mPc, monL, cmdPc, cmdRet, launched, exitCode, pidVars,
                 mgrVars, newVars>>
  /\ CmdRest /\ OpRest /\ StopRest

\* checkWorkProcess is over: in the foreground master start(), Command and
\* Run return and the process ends; in the service only the task ends.
MonFinish ==
  /\ monPc' = "done"
  /\ IF flags.service
     THEN UNCHANGED <<mPc, cmdPc, cmdRet, exitCode>>
     ELSE /\ mPc' = "exited"
          /\ cmdPc' = "done"
          /\ cmdRet' = FALSE
          /\ exitCode' = 0

\* The statements of clear() after its test of isClear.
ClearEffects ==
  /\ isClear' = TRUE
  /\ clearCount' = clearCount + 1
  /\ pidFile' = NoFile

\* clear() called by checkWorkProcess: the test of isClear.
MonClearCheck ==
  /\ monPc = "clear"
  /\ MasterAlive
  /\ IF isClear
     THEN MonFinish
     ELSE /\ monPc' = "clearing"
          /\ UNCHANGED <<mPc, cmdPc, cmdRet, exitCode>>
  /\ UNCHANGED <<nUnits, spawns, wArgs, appCmd, pipeName, appRuning, isClear, clearCount, pidFile,
                 wState, wCode, wSig, waiter, monI, monL, reported, launched, pidVars,
                 mgrVars, newVars>>
  /\ CmdRest /\ OpRest /\ StopRest

\* clear() called by checkWorkProcess: isClear = true and the teardown.
MonClearDo ==
  /\ monPc = "clearing"
  /\ MasterAlive
  /\ ClearEffects
  /\ MonFinish
  /\ UNCHANGED <<nUnits, spawns, wArgs, appCmd, pipeName, appRuning, wState, wCode, wSig, waiter, monI,
                 monL, reported, launched, pidVars, mgrVars, newVars>>
  /\ CmdRest /\ OpRest /\ StopRest

\* sendSignal(SIGINT, pid): one more call for pid. Its error (the process
\* has ended) is dropped by every caller; on Windows it is Process.Kill.
SendSignal(sent, pid) == [sent EXCEPT ![pid] = @ + 1]

\* sendSignal returns an error for a pid that is no process any more
\* (pro.Signal on a process that has ended).
SignalFails(pid) ==
  ~\E i \in Units : WorkerPid(i) = pid /\ wState[i] = "alive"

\* The effect of the calls counted between before and after: a live worker
\* that was signalled has the SIGINT delivered to its signalListen.
Deliver(sig, before, after) ==
  [i \in Units |->
     IF after[WorkerPid(i)] > before[WorkerPid(i)]
        /\ ~SignalFails(WorkerPid(i)) /\ sig[i] = "none"
     THEN "int" ELSE sig[i]]

\* A loop that returns at the first sendSignal error.
RECURSIVE FanOutStopsAtError(_, _)
FanOutStopsAtError(sent, pids) ==
  IF pids = <<>> THEN sent
  ELSE IF SignalFails(Head(pids)) THEN SendSignal(sent, Head(pids))
  ELSE FanOutStopsAtError(SendSignal(sent, Head(pids)), Tail(pids))

FanOutFirstOnly(sent, pids) ==
  IF pids = <<>> THEN sent ELSE SendSignal(sent, Head(pids))

\* "for _, pid := range pids { sendSignal(syscall.SIGINT, pid) }"
RECURSIVE FanOut(_, _)
FanOut(sent, pids) ==
  IF pids = <<>> THEN sent
  ELSE FanOut(SendSignal(sent, Head(pids)), Tail(pids))

\* daemonExecutable.Stop: app.runing = false.
StopBegin ==
  /\ flags.service
  /\ mPc = "serving"
  /\ stopPc = "idle"
  /\ appRuning' = FALSE
  /\ stopPc' = "fanout"
  /\ UNCHANGED <<nUnits, spawns, wArgs, appCmd, pipeName, isClear, clearCount, pidFile, wState,
                 wCode, wSig, waiter, mPc, monPc, monI, monL, reported, stopPids,
                 svcSent, cmdPc, cmdRet, launched, exitCode, pidVars, mgrVars, newVars>>
  /\ CmdRest /\ OpRest

\* serviceStop: getWorkPids and the signal loop.
StopFanOut ==
  /\ stopPc = "fanout"
  /\ MasterAlive
  /\ LET r == GetWorkPids(pidFile) IN
     IF r.panic
     THEN /\ mPc' = "panicked"
          /\ stopPc' = "panicked"
          /\ UNCHANGED <<stopPids, svcSent, wSig>>
     ELSE /\ stopPids' = r.pids
          /\ svcSent' = FanOut(svcSent, r.pids)
          /\ wSig' = Deliver(wSig, svcSent, svcSent')
          /\ stopPc' = "clear"
          /\ mPc' = mPc
  /\ UNCHANGED <<nUnits, spawns, wArgs, appCmd, pipeName, appRuning, isClear, clearCount, pidFile,
                 wState, wCode, waiter, monPc, monI, monL, reported, cmdPc,
                 cmdRet, launched, exitCode, pidVars, mgrVars, newVars>>
  /\ CmdRest /\ OpRest

\* clear() called by serviceStop: the test of isClear.
StopClearCheck ==
  /\ stopPc = "clear"
  /\ MasterAlive
  /\ stopPc' = IF isClear THEN "done" ELSE "clearing"
  /\ UNCHANGED <<nUnits, spawns, wArgs, appCmd, pipeName, appRuning, isClear, clearCount, pidFile,
                 wState, wCode, wSig, waiter, mPc, monPc, monI, monL, reported,
                 stopPids, svcSent, cmdPc, cmdRet, launched, exitCode, pidVars,
                 mgrVars, newVars>>
  /\ CmdRest /\ OpRest

\* clear() called by serviceStop: isClear = true and the teardown.
StopClearDo ==
  /\ stopPc = "clearing"
  /\ MasterAlive
  /\ ClearEffects
  /\ stopPc' = "done"
  /\ UNCHANGED <<nUnits, spawns, wArgs, appCmd, pipeName, appRuning, wState, wCode, wSig, waiter, mPc,
                 monPc, monI, monL, reported, stopPids, svcSent, cmdPc, cmdRet,
                 launched, exitCode, pidVars, mgrVars, newVars>>
  /\ CmdRest /\ OpRest

MasterRest ==
  UNCHANGED <<nUnits, spawns, wArgs, appCmd, pipeName, appRuning, isClear, clearCount, pidFile,
              wState, wCode, waiter, mPc, monPc, monI, monL, reported, cmdPc,
              cmdRet, exitCode, pidVars, mgrVars, newVars>>

\* The operator runs the binary with -stop or -reload: Command enters
\* stop() or reload().
OpLaunch ==
  /\ opPc = "idle"
  /\ \E m \in {"stop", "reload"} : opMode' = m
  /\ opPc' = "read"
  /\ UNCHANGED <<opSaw, opPids, opSent, startCalls, launched, wSig>>
  /\ MasterRest /\ CmdRest /\ StopRest

\* stop() / reload(): pids := getWorkPids().
OpRead ==
  /\ opPc = "read"
  /\ opSaw' = pidFile
  /\ LET r == GetWorkPids(pidFile) IN
       /\ opPids' = r.pids
       /\ opPc' = IF r.panic THEN "panicked" ELSE "signal"
  /\ UNCHANGED <<opMode, opSent, startCalls, launched, wSig>>
  /\ MasterRest /\ CmdRest /\ StopRest

\* stop() / reload(): the signal loop.
OpSignal ==
  /\ opPc = "signal"
  /\ opSent' = FanOut(opSent, opPids)
  /\ wSig' = Deliver(wSig, opSent, opSent')
  /\ opPc' = "sleep"
  /\ UNCHANGED <<opMode, opSaw, opPids, startCalls, launched>>
  /\ MasterRest /\ CmdRest /\ StopRest

\* stop(): after the 30 ms sleep, os.Exit(0).
OpStopExit ==
  /\ opPc = "sleep"
  /\ opMode = "stop"
  /\ opPc' = "exited"
  /\ UNCHANGED <<opMode, opSaw, opPids, opSent, startCalls, launched, wSig>>
  /\ MasterRest /\ CmdRest /\ StopRest

\* reload(): after the 30 ms sleep, start(); the invocation is not the
\* master, so start() re-executes the binary as a master and exits 0.
OpReloadStart ==
  /\ opPc = "sleep"
  /\ opMode = "reload"
  /\ startCalls' = startCalls + 1
  /\ launched' = Append(launched,
                        MasterArgs(ParseCommandLine(<<Arg("reload", "true")>>)))
  /\ opPc' = "exited"
  /\ UNCHANGED <<opMode, opSaw, opPids, opSent, wSig>>
  /\ MasterRest /\ CmdRest /\ StopRest

NextSys ==
  \/ DoStartBegin
  \/ SpawnUnit
  \/ LogPidOpen
  \/ LogPidWrite
  \/ \E i \in Units : WorkerExit(i)
  \/ \E i \in Units : WorkerShutdown(i)
  \/ MonSetup
  \/ \E i \in Units : WaitReturn(i)
  \/ \E i \in Units : MonRecv(i)
  \/ MonClearCheck
  \/ MonClearDo
  \/ StopBegin
  \/ StopFanOut
  \/ StopClearCheck
  \/ StopClearDo
  \/ OpLaunch
  \/ OpRead
  \/ OpSignal
  \/ OpStopExit
  \/ OpReloadStart

SpecSys == InitSys /\ [][NextSys]_vars

\* ----------------------------------------------------- claims on SpecSys
\* The pids of the registry entries flagged runing, in registry order.
RECURSIVE RunningPids(_)
RunningPids(cmd) ==
  IF cmd = <<>> THEN <<>>
  ELSE (IF Head(cmd).runing THEN <<Head(cmd).pid>> ELSE <<>>)
       \o RunningPids(Tail(cmd))

\* The pid file holds a whole record (it is neither missing nor emptied).
Complete(f) == f.exists /\ f.data # <<>>

\* The worker pids a whole record lists: those the master spawned.
Recorded(f) == IF Complete(f) THEN Range(RunningPids(appCmd)) ELSE {}

OncePer(sent, pids) ==
  \A p \in PidSpace : sent[p] = (IF p \in pids THEN 1 ELSE 0)

\* C1 as stated: once checkWorkProcess has received the completion of every
\* one of the N workers the master spawned, every entry of app.cmd has
\* runing = false.
C1_AllMarkedNotRunning ==
  (nUnits > 0 /\ monL = nUnits /\ monI = monL
     /\ \A i \in 1..nUnits : wState[i] = "exited")
    => \A i \in DOMAIN appCmd : ~appCmd[i].runing

\* C2 as stated: whatever the interleaving of checkWorkProcess and the
\* service-stop callback, the effects of clear() are executed at most once
\* in a master process.
C2_ClearOnce == clearCount <= 1

\* C3 as stated: reload() signals once each pid the pid file records and no
\* other pid, and calls start() exactly once, after the signals and the
\* sleep, whatever the pid file holds when it is read.
C3_ReloadFanOut ==
  opMode = "reload" =>
    /\ startCalls <= 1
    /\ (startCalls = 1 => opPc = "exited")
    /\ (opPc \in {"sleep", "exited"} => OncePer(opSent, Recorded(opSaw)))
    /\ (opPc \in {"exited", "panicked"} => startCalls = 1)

\* C4: a -stop invocation that read a whole record signals once each worker
\* pid listed and no other pid, never waits for a worker (its next step is
\* enabled whatever the workers do), starts nothing and ends with
\* os.Exit(0), not with a panic.
C4_StopFanOut ==
  (opMode = "stop" /\ Complete(opSaw)) =>
    /\ opPc \in {"signal", "sleep", "exited"}
    /\ (opPc \in {"sleep", "exited"} => OncePer(opSent, Recorded(opSaw)))
    /\ (opPc = "signal" => ENABLED OpSignal)
    /\ (opPc = "sleep" => ENABLED OpStopExit)
    /\ startCalls = 0
    /\ launched = <<>>

C4_Witness ==
  /\ opMode = "stop"
  /\ opPc = "exited"
  /\ Len(opPids) = 2
  /\ wState[1] = "alive" /\ wState[2] = "exited"
  /\ opSent[WorkerPid(1)] = 1 /\ opSent[WorkerPid(2)] = 1

\* The worker pids a pid file lists, as getWorkPids reads them.
Listed(f) == Range(GetWorkPids(f).pids)

\* C11 as stated: a unit whose process failed to start is not recorded with
\* runing = true, the master does not crash but goes on spawning, and the
\* pid file it then writes lists only the workers that started.
C11_SpawnFailureSurfaced ==
  /\ \A i \in DOMAIN appCmd : ~appCmd[i].started => ~appCmd[i].runing
  /\ mPc # "panicked"
  /\ (Complete(pidFile) /\ mPc \in {"serving", "monitor"}) =>
        Listed(pidFile) = {appCmd[i].pid : i \in {j \in DOMAIN appCmd : appCmd[j].started}}

\* Every pid of pids has had one sendSignal call, and every worker among
\* them that was alive at that call has had the SIGINT delivered.
SignalledAll(sent, pids) ==
  /\ \A p \in Range(pids) : sent[p] = 1
  /\ \A i \in Units : WorkerPid(i) \in Range(pids) =>
        (wSig[i] # "none" \/ wState[i] = "exited")

\* C12: in stop, reload and serviceStop a sendSignal that fails (the pid is
\* of a process that has ended) does not end the loop: every pid read from
\* the pid file has its call, the live workers get the SIGINT, and the
\* next step (os.Exit(0), start(), clear()) is enabled.
C12_FanOutSurvivesFailure ==
  /\ (opPc \in {"sleep", "exited"}) => SignalledAll(opSent, opPids)
  /\ (opPc = "sleep") => (ENABLED OpStopExit \/ ENABLED OpReloadStart)
  /\ (stopPc \in {"clear", "clearing", "done"}) => SignalledAll(svcSent, stopPids)
  /\ (stopPc = "clear") => ENABLED StopClearCheck

\* The first pid read is of a worker that had ended (no SIGINT delivered),
\* the second one of a live worker, which was still signalled.
C12_Witness ==
  /\ opPc = "exited"
  /\ opPids = <<WorkerPid(1), WorkerPid(2)>>
  /\ wState[1] = "exited" /\ wSig[1] = "none"
  /\ opSent[WorkerPid(1)] = 1 /\ opSent[WorkerPid(2)] = 1
  /\ wSig[2] # "none"
  /\ svcSent[WorkerPid(2)] = 0

\* C13 as stated: each completion checkWorkProcess receives is attributed
\* to the worker whose process ended: the key and exit code reported and
\* the entry marked runing = false are that worker's, and the entries of
\* the live workers keep runing = true.
C13_ExitAttributed ==
  /\ \A k \in DOMAIN reported :
       /\ reported[k].index = reported[k].from
       /\ reported[k].key = appCmd[reported[k].from].key
       /\ reported[k].code = wCode[reported[k].from]
       /\ ~appCmd[reported[k].from].runing
  /\ \A i \in DOMAIN appCmd : wState[i] = "alive" => appCmd[i].runing

\* C14: while app.runing is true, clear() is reached by checkWorkProcess
\* only, and only once a completion has been received for every worker
\* flagged runing when the loop began: no clean-up, and so no pid-file
\* removal, while a worker of the master is alive.
C14_CleanupAfterAllExited ==
  (appRuning /\ (isClear \/ clearCount > 0
                  \/ monPc \in {"clear", "clearing", "done"})) =>
    /\ stopPc = "idle"
    /\ monI = monL
    /\ \A i \in DOMAIN appCmd :
         appCmd[i].runing => (waiter[i] = "done" /\ wState[i] # "alive")

C14_Witness ==
  /\ appRuning
  /\ nUnits = 2
  /\ clearCount = 1
  /\ ~pidFile.exists
  /\ monPc = "done"
  /\ \A i \in 1..2 : waiter[i] = "done" /\ wState[i] = "exited"

\* C15 as stated: while checkWorkProcess monitors and the pid file holds a
\* record, the worker pids it lists are exactly those of the workers of
\* the master that are running now; the pid of a worker that has exited is
\* not listed any more.
C15_PidFileCurrent ==
  (monPc \in {"setup", "loop"} /\ MasterAlive /\ Complete(pidFile)) =>
    Listed(pidFile) = {WorkerPid(i) : i \in {j \in Units : wState[j] = "alive"}}

\* C16: a master calls cmd.Start() at most once per configured unit, in
\* doStart; checkWorkProcess starts nothing when a worker exits, whatever
\* the exit code and whether app.runing is true or false.
C16_NoRespawn ==
  /\ \A i \in Units : spawns[i] = (IF wState[i] = "none" THEN 0 ELSE 1)
  /\ Len(appCmd) <= nUnits
  /\ \A i \in DOMAIN appCmd : appCmd[i].key = i

\* Two workers exited with different codes under app.runing = true, both
\* completions received, and no further start was made.
C16_Witness ==
  /\ appRuning
  /\ monPc = "done"
  /\ Len(reported) = 2
  /\ wCode[1] = 1 /\ wCode[2] = 222
  /\ spawns[1] = 1 /\ spawns[2] = 1

\* The master has stopped: checkWorkProcess is over and no service-stop
\* callback is under way.
Stopped == monPc = "done" /\ stopPc \in {"idle", "done"}

\* C17 as stated: checkWorkProcess (Monitoring) begins only once doStart
\* has launched every configured unit and written the pid file, and the
\* master is Stopped only once the pid file is removed and a completion has
\* been received from the channel for every tracked unit.
C17_PhaseOrder ==
  /\ (monPc # "idle") =>
        /\ mPc \notin {"doStart", "spawn", "logPid"}
        /\ Len(appCmd) = nUnits
        /\ \A i \in 1..nUnits : spawns[i] = 1
  /\ Stopped =>
        /\ isClear /\ ~pidFile.exists
        /\ \A i \in DOMAIN appCmd : waiter[i] = "done"

\* A step of checkWorkProcess or of one of its wait-tasks.
MonitorStep ==
  \/ MonSetup
  \/ \E i \in Units : WaitReturn(i)
  \/ \E i \in Units : MonRecv(i)
  \/ MonClearCheck
  \/ MonClearDo

\* C18 as stated: once app.runing is false and the service-stop callback
\* has returned, checkWorkProcess has ended or can go on by itself, without
\* any worker having to exit first, and clear() has run.
C18_StopEndsMonitor ==
  (~appRuning /\ stopPc = "done" /\ MasterAlive) =>
    /\ isClear
    /\ (monPc = "done" \/ ENABLED MonitorStep)

\* C19 as stated: a serving worker that received the SIGINT of stop, reload
\* or serviceStop and went through signalListen and Shutdown does not end
\* with the exit code of a fatal listen or serve failure.
C19_GracefulNot222 ==
  \A i \in Units :
    (wSig[i] = "shutdown" /\ wState[i] = "exited") => wCode[i] # FatalExitCode

\* C22 as stated: a -stop or -reload invocation never panics in getWorkPids,
\* whatever it finds of the pid file (missing, emptied by logPid's open,
\* or whole): a missing or empty file gives no pid and the invocation goes
\* on to its sleep and its exit or start.
C22_ReadNeverCrashes ==
  /\ opPc # "panicked"
  /\ (opPc \in {"signal", "sleep", "exited"} /\ ~Complete(opSaw)) => opPids = <<>>
  /\ (opPc = "signal") => ENABLED OpSignal

\* C23 as stated: once the loop of checkWorkProcess is over, every wait-task
\* it started has had its completion received: none is left waiting for
\* its process or offering on the channel, also after the break taken when
\* app.runing is false.
C23_NoWaitTaskLeft ==
  (monPc \in {"clear", "clearing", "done"}) =>
    \A i \in Units : waiter[i] \in {"none", "done"}

\* C25 as stated: the worker started for a unit reads, from its own
\* arguments, an app key equal to the key of the unit, a pipe token equal
\* to app.pipeName of the master and a parent pid equal to the master's
\* pid; the workers of distinct units read distinct app keys.
C25_WorkerIdentity ==
  /\ \A i \in DOMAIN appCmd :
       /\ FlagAppKey(wArgs[i]) = Itoa(appCmd[i].key)
       /\ FlagPipe(wArgs[i]) = pipeName
       /\ FlagPPid(wArgs[i]) = masterPid
  /\ \A i, j \in DOMAIN appCmd :
       i # j => FlagAppKey(wArgs[i]) # FlagAppKey(wArgs[j])

\* ------------------------------------------------------------ SpecChain
\* A foreground start invocation and the processes that follow from it:
\* the child it re-executes (the master), which runs doStart and
\* checkWorkProcess, and the workers of the master.
StartArgs ==
  {<<>>, <<Arg("start", "true")>>, <<Arg("start", "true"), Arg("conf", "c")>>}

InitChain ==
  /\ args \in StartArgs
  /\ flags = NoFlags
  /\ cmdPc = "init"
  /\ isCallCommand = FALSE
  /\ handlers = <<>>
  /\ cmdRet = TRUE
  /\ printed = <<>>
  /\ svcCalls = <<>>
  /\ launched = <<>>
  /\ exitCode = -1
  /\ runPc = "idle"
  /\ gen = 0
  /\ nUnits \in 0..MaxUnits
  /\ appCmd = <<>>
  /\ pipeName = <<>>
  /\ appRuning = TRUE
  /\ isClear = FALSE
  /\ clearCount = 0
  /\ pidFile = NoFile
  /\ wState = [i \in Units |-> "none"]
  /\ wCode = [i \in Units |-> 0]
  /\ wSig = [i \in Units |-> "none"]
  /\ spawns = [i \in Units |-> 0]
  /\ wArgs = [i \in Units |-> <<>>]
  /\ waiter = [i \in Units |-> "none"]
  /\ mPc = "idle"
  /\ monPc = "idle"
  /\ monI = 0
  /\ monL = 0
  /\ reported = <<>>
  /\ stopPc = "idle"
  /\ stopPids = <<>>
  /\ svcSent = NoneSent
  /\ opMode = "none"
  /\ opPc = "idle"
  /\ opSaw = NoFile
  /\ opPids = <<>>
  /\ opSent = NoneSent
  /\ startCalls = 0
  /\ PidIdle /\ MgrIdle /\ NewIdle

\* The child started last with exec.Command begins to run, after the
\* process that started it has ended with os.Exit(0): init() of a new
\* process, with the arguments it was given.
ChainExec ==
  /\ cmdPc = "done"
  /\ exitCode = 0
  /\ gen < Len(launched)
  /\ gen < MaxChain
  /\ gen' = gen + 1
  /\ args' = launched[gen + 1]
  /\ flags' = NoFlags
  /\ cmdPc' = "init"
  /\ isCallCommand' = FALSE
  /\ handlers' = <<>>
  /\ cmdRet' = TRUE
  /\ exitCode' = -1
  /\ UNCHANGED <<printed, svcCalls, launched, runPc, sysVars, pidVars, mgrVars, newVars>>

NextChain ==
  \/ CmdParse
  \/ CmdStartDetach
  \/ ChainExec
  \/ CmdStartMaster
  \/ DoStartBegin
  \/ SpawnUnit
  \/ LogPidOpen
  \/ LogPidWrite
  \/ \E i \in Units : WorkerExit(i)
  \/ MonSetup
  \/ \E i \in Units : WaitReturn(i)
  \/ \E i \in Units : MonRecv(i)
  \/ MonClearCheck
  \/ MonClearDo

SpecChain == InitChain /\ [][NextChain]_vars

\* ---------------------------------------------------- claims on SpecChain
\* C24: the start invocation that is not the master starts one child, with
\* -master -start -conf=<path>, and ends with os.Exit(0); the child takes
\* the start branch as master and calls cmd.Start() once per configured
\* unit; every worker takes the daemon branch with flagStart and isMaster
\* false, the branch that starts no process. No other process is started.
C24_ChainFinite ==
  /\ Len(launched) <= 1
  /\ gen <= 1
  /\ (gen = 0) =>
        /\ \A i \in Units : spawns[i] = 0
        /\ (cmdPc = "done") =>
              /\ handlers = <<"start">>
              /\ exitCode = 0
              /\ launched = <<<<Arg("master", "true"), Arg("start", "true"),
                                Arg("conf", ConfPath(flags))>>>>
  /\ (gen = 1 /\ cmdPc # "init") =>
        /\ flags.start /\ flags.master
        /\ (cmdPc # "parsed" => handlers = <<"start">>)
        /\ \A i \in Units : spawns[i] = (IF i <= Len(appCmd) THEN 1 ELSE 0)
        /\ (mPc \notin {"idle", "doStart", "spawn"}) => Len(appCmd) = nUnits
  /\ \A i \in Units : wArgs[i] # <<>> =>
        LET f == ParseCommandLine(wArgs[i]) IN
          Mode(f) = "daemon" /\ ~f.start /\ ~f.master

C24_Witness ==
  /\ gen = 1
  /\ Len(launched) = 1
  /\ nUnits = 2
  /\ spawns[1] = 1 /\ spawns[2] = 1
  /\ Mode(ParseCommandLine(wArgs[2])) = "daemon"
  /\ mPc = "exited"

\* -------------------------------------------------------------- SpecRun
\* The public functions Command and Run called by the program, in any
\* order and any number of times, in one process. The branches of Command
\* are the actions of SpecCmd, whoever calls it.
RunRest ==
  UNCHANGED <<args, flags, isCallCommand, handlers, printed, svcCalls, launched,
              gen, sysVars, pidVars, mgrVars, newVars>>

\* Run, called before any Command: app.isCallCommand is false, so Run
\* calls Command.
RunBegin ==
  /\ cmdPc = "parsed"
  /\ ~isCallCommand
  /\ runPc = "idle"
  /\ runPc' = "inCommand"
  /\ UNCHANGED <<cmdPc, cmdRet, exitCode>>
  /\ RunRest

\* The handlers that come back to Command, which then returns false:
\* start() in the master once checkWorkProcess is over, service() once the
\* service has run, reload() when its start() is the master's.
HandlerReturns ==
  /\ cmdPc = "inHandler"
  /\ \/ Mode(flags) \in {"start", "service"}
     \/ (Mode(flags) = "reload" /\ flags.master)
  /\ cmdPc' = "done"
  /\ cmdRet' = FALSE
  /\ UNCHANGED <<exitCode, runPc>>
  /\ RunRest

\* stop(), and reload() outside the master, end the process with os.Exit(0).
HandlerExits ==
  /\ cmdPc = "inHandler"
  /\ \/ Mode(flags) = "stop"
     \/ (Mode(flags) = "reload" /\ ~flags.master)
  /\ cmdPc' = "done"
  /\ exitCode' = 0
  /\ UNCHANGED <<cmdRet, runPc>>
  /\ RunRest

\* "if !app.isCallCommand && !Command() { return }" once the Command that
\* Run called has returned.
RunAfterCommand ==
  /\ runPc = "inCommand"
  /\ cmdPc = "done"
  /\ exitCode = -1
  /\ runPc' = IF cmdRet THEN "doRun" ELSE "returned"
  /\ UNCHANGED <<cmdPc, cmdRet, exitCode>>
  /\ RunRest

\* Command called again: app.isCallCommand is true, it returns false.
CommandAgain ==
  /\ cmdPc = "done"
  /\ exitCode = -1
  /\ isCallCommand
  /\ runPc \in {"idle", "returned"}
  /\ cmdRet' = FALSE
  /\ UNCHANGED <<cmdPc, exitCode, runPc>>
  /\ RunRest

\* Run called after a Command that has returned: app.isCallCommand is
\* true, the test is false without calling Command, and doRun is entered.
RunSkipCommand ==
  /\ cmdPc = "done"
  /\ exitCode = -1
  /\ isCallCommand
  /\ runPc \in {"idle", "returned"}
  /\ runPc' = "doRun"
  /\ UNCHANGED <<cmdPc, cmdRet, exitCode>>
  /\ RunRest

\* doRun: tryRun binds the address or fails (os.Exit(222)); then
\* ListenAndServe serves.
DoRunListen ==
  /\ runPc = "doRun"
  /\ \E ok \in BOOLEAN :
       /\ runPc' = IF ok THEN "serving" ELSE "exited"
       /\ exitCode' = IF ok THEN exitCode ELSE FatalExitCode
  /\ UNCHANGED <<cmdPc, cmdRet>>
  /\ RunRest

\* ListenAndServe returns, always with an error: os.Exit(222).
ServeEnds ==
  /\ runPc = "serving"
  /\ runPc' = "exited"
  /\ exitCode' = FatalExitCode
  /\ UNCHANGED <<cmdPc, cmdRet>>
  /\ RunRest

NextRun ==
  \/ NextCmd
  \/ RunBegin
  \/ HandlerReturns
  \/ HandlerExits
  \/ RunAfterCommand
  \/ CommandAgain
  \/ RunSkipCommand
  \/ DoRunListen
  \/ ServeEnds

SpecRun == InitCmd /\ [][NextRun]_vars

\* ------------------------------------------------------ claims on SpecRun
\* C26 as stated: whatever calls of Command and Run the program makes, at
\* most one mode handler runs, and doRun (bind and serve) is reached only
\* in a process dispatched as a worker (daemon) or to no handler at all
\* (foreground, develop): never after start, service, stop, reload,
\* install or uninstall.
C26_ServeOnlyIfDispatchedToServe ==
  /\ Len(handlers) <= 1
  /\ (runPc \in {"doRun", "serving"}) => handlers \in {<<>>, <<"daemon">>}

\* -------------------------------------------------------------- SpecGen
\* Two masters of one executable: the foreground master of SpecSys and a
\* second one, re-executed by a second -start or by the start() of a
\* -reload invocation. Both write and remove os.Args[0] + ".pid". The
\* second master is followed through doStart, logPid, the end of its
\* checkWorkProcess and its clear(); its workers all start.
InitGen ==
  /\ InitSys
  /\ args = MasterStartArgs
  /\ nUnits >= 1

NewMasterPid == CHOOSE p \in MasterPids : p # masterPid

\* app.cmd of the second master after its doStart loop.
NewCmd == [i \in 1..nUnits |-> Work(i, NewWorkerPid(i), TRUE, TRUE)]

GenRest ==
  /\ UNCHANGED <<nUnits, spawns, wArgs, appCmd, pipeName, appRuning, isClear, clearCount,
                 wState, wCode, wSig, waiter, mPc, monPc, monI, monL, reported, cmdPc,
                 cmdRet, exitCode, pidVars, mgrVars>>
  /\ CmdRest /\ OpRest /\ StopRest

\* The binary is run with -start while the first master is in
\* checkWorkProcess: the invocation is not the master, so start()
\* re-executes it as one.
SecondStart ==
  /\ mPc = "monitor"
  /\ launched = <<>>
  /\ launched' = Append(launched,
                        MasterArgs(ParseCommandLine(<<Arg("start", "true")>>)))
  /\ UNCHANGED <<pidFile, newPc, newState>>
  /\ GenRest

\* The re-executed process parses -master -start: Command enters start(),
\* start() enters doStart.
NewBegin ==
  /\ newPc = "none"
  /\ launched # <<>>
  /\ LET f == ParseCommandLine(launched[1]) IN Mode(f) = "start" /\ f.master
  /\ newPc' = "doStart"
  /\ UNCHANGED <<pidFile, launched, newState>>
  /\ GenRest

\* doStart's loop in the second master.
NewSpawn ==
  /\ newPc = "doStart"
  /\ newState' = [i \in Units |-> IF i <= nUnits THEN "alive" ELSE "none"]
  /\ newPc' = "logPid"
  /\ UNCHANGED <<pidFile, launched>>
  /\ GenRest

\* logPid in the second master, first half: O_TRUNC on the same path.
NewLogPidOpen ==
  /\ newPc = "logPid"
  /\ pidFile' = [exists |-> TRUE, data |-> <<>>]
  /\ newPc' = "write"
  /\ UNCHANGED <<launched, newState>>
  /\ GenRest

\* logPid in the second master, second half.
NewLogPidWrite ==
  /\ newPc = "write"
  /\ pidFile' = [exists |-> TRUE,
                 data |-> LogPidText(NewMasterPid, Itoa(NewMasterPid), NewCmd)]
  /\ newPc' = "monitor"
  /\ UNCHANGED <<launched, newState>>
  /\ GenRest

\* A worker of the second master ends.
NewWorkerExit(i) ==
  /\ newState[i] = "alive"
  /\ newState' = [newState EXCEPT ![i] = "exited"]
  /\ UNCHANGED <<pidFile, launched, newPc>>
  /\ GenRest

\* checkWorkProcess of the second master has received every completion:
\* its clear() (isClear is false in that process) removes the pid file.
NewClear ==
  /\ newPc = "monitor"
  /\ \A i \in 1..nUnits : newState[i] = "exited"
  /\ pidFile' = NoFile
  /\ newPc' = "done"
  /\ UNCHANGED <<launched, newState>>
  /\ GenRest

NextGen ==
  \/ DoStartBegin
  \/ SpawnUnit
  \/ LogPidOpen
  \/ LogPidWrite
  \/ \E i \in Units : WorkerExit(i)
  \/ \E i \in Units : WorkerShutdown(i)
  \/ MonSetup
  \/ \E i \in Units : WaitReturn(i)
  \/ \E i \in Units : MonRecv(i)
  \/ MonClearCheck
  \/ MonClearDo
  \/ OpLaunch
  \/ OpRead
  \/ OpSignal
  \/ OpStopExit
  \/ OpReloadStart
  \/ SecondStart
  \/ NewBegin
  \/ NewSpawn
  \/ NewLogPidOpen
  \/ NewLogPidWrite
  \/ \E i \in Units : NewWorkerExit(i)
  \/ NewClear

SpecGen == InitGen /\ [][NextGen]_vars

\* ------------------------------------------------------ claims on SpecGen
OldAlive == {WorkerPid(i) : i \in {j \in Units : wState[j] = "alive"}}

NewAlive == {NewWorkerPid(i) : i \in {j \in Units : newState[j] = "alive"}}

\* C21 as stated: with a second start or a reload beside a living master,
\* whenever a master has finished doStart (spawning and logPid) and has a
\* live worker, the pid file exists, holds a whole record and lists that
\* master's live workers; no clear() of the older master takes away the
\* file the newer one wrote.
C21_PidFileListsLiveWorkers ==
  /\ (mPc = "monitor" /\ OldAlive # {}) =>
       (Complete(pidFile) /\ OldAlive \subseteq Listed(pidFile))
  /\ (newPc = "monitor" /\ NewAlive # {}) =>
       (Complete(pidFile) /\ NewAlive \subseteq Listed(pidFile))

\* ------------------------------------------------------------- SpecPid
\* logPid on a registry whose units all have a process, any of them
\* flagged running, followed by getWorkPids.
PidPool == {WorkerPid(i) : i \in 1..(MaxUnits + 1)}

Registries ==
  UNION { { r \in [1..n -> [key : {0}, pid : PidPool, started : {TRUE},
                            runing : BOOLEAN]] :
              \A i, j \in 1..n : i # j => r[i].pid # r[j].pid }
          : n \in 0..MaxUnits }

InitPid ==
  /\ masterPid \in MasterPids
  /\ pipeName \in {Itoa(m) : m \in MasterPids}
  /\ appCmd \in {[i \in DOMAIN r |-> [r[i] EXCEPT !.key = i]] : r \in Registries}
  /\ pidFile = NoFile
  /\ pidPc = "init"
  /\ pidRead = [panic |-> FALSE, pids |-> <<>>]
  /\ SysIdleRest /\ CmdIdle /\ MgrIdle /\ NewIdle

PidWrite ==
  /\ pidPc = "init"
  /\ ~LogPidPanics(appCmd)
  /\ pidFile' = [exists |-> TRUE, data |-> LogPidText(masterPid, pipeName, appCmd)]
  /\ pidPc' = "written"
  /\ UNCHANGED <<masterPid, pidRead, cmdVars, mgrVars, newVars, nUnits, spawns, wArgs, appCmd,
                 pipeName,
                 appRuning, isClear, clearCount, wState, wCode, wSig, waiter, mPc,
                 monPc, monI, monL, reported, stopPc, stopPids, svcSent, opMode,
                 opPc, opSaw, opPids, opSent, startCalls>>

PidReadBack ==
  /\ pidPc \in {"init", "written"}
  /\ pidRead' = GetWorkPids(pidFile)
  /\ pidPc' = "read"
  /\ UNCHANGED <<masterPid, cmdVars, mgrVars, newVars, sysVars>>

NextPid == PidWrite \/ PidReadBack

SpecPid == InitPid /\ [][NextPid]_vars

\* ----------------------------------------------------- claims on SpecPid
\* C5: after logPid then getWorkPids, the pids read back are the pids of the
\* units written as running, in registry order, for 0, 1 and more units and
\* any subset running; the text before ":" is the master pid, "|" and the
\* pipe name; a missing file reads back empty.
C5_PidRoundTrip ==
  pidPc = "read" =>
    /\ ~pidRead.panic
    /\ pidRead.pids = (IF pidFile.exists THEN RunningPids(appCmd) ELSE <<>>)
    /\ pidFile.exists =>
         LET head == Split(Split(pidFile.data, ":")[1], "|")
         IN /\ Len(head) = 2
            /\ Atoi(head[1]) = [ok |-> TRUE, val |-> masterPid]
            /\ head[2] = pipeName

C5_Witness ==
  /\ pidPc = "read"
  /\ pidFile.exists
  /\ Len(appCmd) = 2
  /\ ~appCmd[1].runing /\ appCmd[2].runing
  /\ pidRead.pids = <<appCmd[2].pid>>

\* ------------------------------------------------------------- SpecMgr
\* Configuration paths of the instances that register themselves.
ConfPaths == {<<"/", "a">>, <<"/", "b">>, <<"/", "a", " ">>}

\* The lines of a file as written: the text split at "\n", without the empty
\* field after the last line break.
RawLines(f) ==
  IF ~f.exists \/ f.data = <<>> THEN <<>>
  ELSE LET fs == Split(f.data, "\n")
       IN IF fs[Len(fs)] = <<>> THEN SubSeq(fs, 1, Len(fs) - 1) ELSE fs

RECURSIVE TrimmedNonEmpty(_)
TrimmedNonEmpty(fs) ==
  IF fs = <<>> THEN <<>>
  ELSE (IF TrimSpace(Head(fs)) # <<>> THEN <<TrimSpace(Head(fs))>> ELSE <<>>)
       \o TrimmedNonEmpty(Tail(fs))

\* A list that is read whether -force is given or not.
MgrListIgnoresForce(f, force) ==
  IF ~f.exists THEN <<>>
  ELSE TrimmedNonEmpty(Split(f.data, "\n"))

\* mgrList: nil under -force and for a missing file, else every line with
\* surrounding white space trimmed, blank lines dropped.
MgrList(f, force) ==
  IF force \/ ~f.exists THEN <<>>
  ELSE TrimmedNonEmpty(Split(f.data, "\n"))

TruncatesNever(force) == FALSE

\* logMgr opens the file with O_TRUNC under -force, with O_APPEND otherwise.
Truncates(force) == force

\* logMgr for configuration path cf.
LogMgr(f, cf, force) ==
  IF cf \in Range(MgrList(f, force)) THEN f
  ELSE [exists |-> TRUE,
        data |-> (IF Truncates(force) THEN <<>> ELSE f.data) \o cf \o <<"\n">>]

InitMgr ==
  /\ mgrFile = NoFile
  /\ mgrLast = [cf |-> <<>>, force |-> FALSE, before |-> NoFile]
  /\ mgrCalls = 0
  /\ CmdIdle /\ SysIdle /\ PidIdle /\ NewIdle

\* One instance runs logMgr with its configuration path and -force or not.
MgrAppend ==
  /\ mgrCalls < MaxAppends
  /\ \E cf \in ConfPaths, force \in BOOLEAN :
       /\ mgrFile' = LogMgr(mgrFile, cf, force)
       /\ mgrLast' = [cf |-> cf, force |-> force, before |-> mgrFile]
  /\ mgrCalls' = mgrCalls + 1
  /\ UNCHANGED <<cmdVars, sysVars, pidVars, newVars>>

NextMgr == MgrAppend

SpecMgr == InitMgr /\ [][NextMgr]_vars

\* ----------------------------------------------------- claims on SpecMgr
Clean(path) == path # <<>> /\ TrimSpace(path) = path

NoDupLines(f) ==
  \A i, j \in DOMAIN RawLines(f) :
    RawLines(f)[i] = RawLines(f)[j] => i = j

C20_ForceNoOp ==
  (mgrCalls > 0 /\ mgrLast.force) => mgrFile = mgrLast.before

\* C20 amended: under -force logMgr skips the look-up, truncates the file
\* and writes its path, which is then the whole content; without -force a
\* path that is one of the trimmed lines of the file leaves it as it was.
C20_ForceRewrites ==
  /\ (mgrCalls > 0 /\ mgrLast.force) =>
        mgrFile = [exists |-> TRUE, data |-> mgrLast.cf \o <<"\n">>]
  /\ (mgrCalls > 0 /\ ~mgrLast.force
        /\ mgrLast.cf \in Range(TrimmedNonEmpty(RawLines(mgrLast.before)))) =>
        mgrFile = mgrLast.before

\* A call under -force for a path the file held among two: one line is left.
C20_Witness ==
  /\ mgrCalls > 0
  /\ mgrLast.force
  /\ Len(RawLines(mgrLast.before)) = 2
  /\ mgrLast.cf \in Range(RawLines(mgrLast.before))
  /\ Len(RawLines(mgrFile)) = 1
  /\ mgrFile # mgrLast.before

\* ----------------------------------------------------- claims on SpecCmd
Dispatched == cmdPc \in {"inHandler", "done"}

Given(f) == \E i \in DOMAIN args : args[i].flag = f

GivenTrue(f) == \E i \in DOMAIN args : args[i].flag = f /\ args[i].val = "true"

InstallDaemonArgs == <<Arg("daemon", "true"), Arg("install", "true")>>

NameOnlyArgs == <<Arg("name", "svc")>>

\* The invocations for which Command takes a branch: no argument at all, a
\* mode flag other than -start, or -start without -develop.
ModeGiven ==
  \/ args = <<>>
  \/ \E f \in {"stop", "reload", "daemon", "install", "uninstall", "service",
                "name"} : Given(f)
  \/ (Given("start") /\ ~Given("develop"))

\* C6 as stated: every flag combination runs exactly one mode handler.
C6_ExactlyOneHandler == Dispatched => Len(handlers) = 1

\* C6 amended: Command runs at most one mode handler; exactly one when the
\* invocation has no argument, gives a mode flag other than -start or gives
\* -start without -develop, and none otherwise (only -develop, -master,
\* -force, -conf), where Command returns true for a foreground run.
\* -name=svc alone runs install; -install -daemon runs install with
\* flagDaemon cleared.
C6_AtMostOneHandler ==
  /\ Len(handlers) <= 1
  /\ Dispatched =>
       /\ Len(handlers) = (IF ModeGiven THEN 1 ELSE 0)
       /\ (~ModeGiven => cmdRet /\ cmdPc = "done")
       /\ (args = NameOnlyArgs => handlers = <<"install">>)
       /\ (args = InstallDaemonArgs => handlers = <<"install">> /\ ~flags.daemon)

C6_Witness ==
  /\ cmdPc = "done"
  /\ args = InstallDaemonArgs
  /\ handlers = <<"install">>

\* C7: with no argument flagStart is true; whenever -develop, -stop,
\* -reload, -daemon, -install, -name or -service is given, flagStart is
\* false after parseCommandLine, also when -start was given.
C7_StartPrecedence ==
  cmdPc # "init" =>
    /\ (args = <<>> => flags.start)
    /\ ((\/ \E f \in {"develop", "stop", "reload", "daemon", "install",
                       "service"} : GivenTrue(f)
         \/ Given("name")) => ~flags.start)

C7_Witness ==
  /\ cmdPc = "parsed"
  /\ args = <<Arg("start", "true"), Arg("reload", "true")>>
  /\ ~flags.start

UninstallByNameArgs == <<Arg("uninstall", "true"), Arg("name", "svc")>>

\* C8 as stated: -uninstall -name=svc runs uninstall: the service manager's
\* remove is called for svc (when its handle could be made) and install is
\* never called; a result is printed and nothing is started.
C8_UninstallByName ==
  (cmdPc = "done" /\ args = UninstallByNameArgs) =>
    /\ handlers = <<"uninstall">>
    /\ \A i \in DOMAIN svcCalls :
         svcCalls[i].op = "remove" /\ svcCalls[i].name = "svc"
    /\ (\E i \in DOMAIN printed :
          printed[i] \in {"uninstall success", "uninstall failed"})
    /\ launched = <<>>
    /\ mPc = "idle"

InstallArgsGiven ==
  <<Arg("install", "true"), Arg("name", "svc"), Arg("conf", "c")>>

\* C9: -install -name=svc -conf=c calls the service manager's install at
\* most once, for svc with exactly {-service, -force, -conf=c} (always,
\* unless the service handle could not be made, which is reported as a
\* failure), and the process starts no master or worker and never enters
\* doStart or checkWorkProcess, whether the install succeeds or fails.
C9_InstallOnly ==
  (Dispatched /\ args = InstallArgsGiven) =>
    /\ handlers = <<"install">>
    /\ Len(svcCalls) <= 1
    /\ \A i \in DOMAIN svcCalls :
         /\ svcCalls[i].op = "install"
         /\ svcCalls[i].name = "svc"
         /\ svcCalls[i].args =
              <<Arg("service", "true"), Arg("force", "true"), Arg("conf", "c")>>
    /\ (svcCalls = <<>> => printed[1] = "install failed")
    /\ launched = <<>>
    /\ exitCode = -1
    /\ mPc = "idle" /\ monPc = "idle" /\ opPc = "idle"
    /\ cmdRet = FALSE

C9_Witness ==
  /\ cmdPc = "done"
  /\ args = InstallArgsGiven
  /\ Len(svcCalls) = 1
  /\ ~svcCalls[1].ok

====
